---- MODULE Spec2Model ----
(***************************************************************************)
(* The portal playback controller of the invitation site (PortalCarta):    *)
(* startVideo, onVideoEnded, goInvite and the retry overlay, together with *)
(* the collaborators they drive: the <video> element behind videoRef, the  *)
(* music provider, the router's navigate and the two setTimeout timers.    *)
(*                                                                         *)
(* phase is the React state as committed by the last render.  Every        *)
(* handler is a closure of a render and reads the phase of THAT render;    *)
(* a button exists exactly while the render it belongs to shows it, except *)
(* the hitFinal button, which AnimatePresence keeps in the document (with  *)
(* the props of its last render) until its exit animation is over.         *)
(* Time is abstracted: a timer that was set may fire at any later step.    *)
(***************************************************************************)
EXTENDS Integers, Naturals, FiniteSets, Sequences, TLC

\* ---- bounds of the model (not program constants) ----
MaxStarts == 2      \* startVideo invocations that pass the guard
MaxExitTaps == 2    \* taps on the hitFinal button
MaxRetryTaps == 1   \* taps on the tapToPlay overlay
MaxInvokes == 3     \* startVideo invocations, returned early or not

Phases == {"idle", "video", "ready", "leaving"}
Calls == 1..MaxStarts

VARIABLES
    mounted,        \* the PortalCarta view is mounted (videoRef.current is the <video>)
    phase,          \* useState<Phase>
    exitingFinal,   \* hitFinal is leaving through AnimatePresence (still in the document)
    pc,             \* position of each startVideo invocation
    musicOutcome,   \* what the audio play() of each music.start call came to
    vState,         \* the <video>: "paused", "waiting" (play accepted, not yet playing), "playing"
    startCalls,     \* startVideo invocations
    musicStarts,    \* number of music.start() calls
    begun,          \* number of times startVideo's frame callback did currentTime = 0; play()
    playCmds,       \* number of play() calls issued on the <video>
    pauseCmds,      \* number of pause() calls issued by the handlers
    retryTimers,    \* number of retry setTimeout(…, 120) ever scheduled
    retryTaps,      \* taps on the tapToPlay overlay
    exitCalls,      \* goInvite invocations
    navScheduled,   \* number of setTimeout(navigate, NAV_DELAY_MS) ever scheduled
    navTimers,      \* navigation timers still pending
    navigateCalls,  \* number of navigate("/invite") calls
    endedEvents,    \* number of 'ended' events delivered to onVideoEnded
    tornDown,       \* what was pending when the view was unmounted
    last            \* the step taken last

vars == <<mounted, phase, exitingFinal, pc, musicOutcome, vState, startCalls, musicStarts,
          begun, playCmds, pauseCmds, retryTimers, retryTaps, exitCalls,
          navScheduled, navTimers, navigateCalls, endedEvents, tornDown, last>>

\* ---- the admin page (Admin.tsx), a component of its own ----
MaxRows == 2        \* RSVP rows in the remote table
MaxDeletes == 2     \* delete requests sent
MaxLoads == 1       \* load() requests sent after the first one

Ids == 1..MaxRows

VARIABLES
    server,         \* ids in the remote rsvps table
    rows,           \* useState<RSVPRow[]>: the displayed list (ids)
    loading,        \* useState(false)
    selected,       \* useState<RSVPRow | null>, 0 for null
    confirming,     \* useState<RSVPRow | null>, 0 for null
    deletingId,     \* useState<string | null>, 0 for null
    toast,          \* the toast shown: "none", "ok", "err"
    staleConfirm,   \* what the confirm modal that is leaving the document closed over
    dels,           \* the delete requests and the deleteRSVP calls awaiting them
    loads,          \* the load() requests
    session,        \* useState<any>(null): a session exists
    signOutSt,      \* the signOut() call: "none", "sent", "served", "done"
    alast           \* the admin step taken last

adminVars == <<server, rows, loading, selected, confirming, deletingId, toast,
               staleConfirm, dels, loads, session, signOutSt, alast>>

\* ---- the music provider (MusicProvider), mounted once at the root ----
MaxMusicStarts == 2 \* start() calls

Volumes == {0 - 5, 0, 3, 10, 15}    \* arguments of setVolume, in tenths

VARIABLES
    audioRef,       \* useRef<HTMLAudioElement | null>: 0 for null, else the Audio object
    audiosMade,     \* number of new Audio(AUDIO_URL) evaluated
    usedAudio,      \* the Audio objects the calls have operated on
    aPaused,        \* the element's paused attribute
    aVolume,        \* the element's volume, in tenths
    aPlays,         \* per start() call: its play() promise and the start() promise
    aEvents,        \* events the element has queued and not yet dispatched
    isReady,        \* useState(false)
    isPlaying,      \* useState(false)
    mlast           \* the music step taken last

musicVars == <<audioRef, audiosMade, usedAudio, aPaused, aVolume, aPlays, aEvents,
               isReady, isPlaying, mlast>>

\* ---- the invitation page (Invite): RSVP form, lightbox, countdown ----
MaxText == 1            \* longest text typed into a field
MaxInserts == 2         \* insert requests sent
MaxLightboxSteps == 5   \* goLightbox steps on one opening of the lightbox
MaxTicks == 4           \* runs of the countdown's tick after the first
MaxDays == 2            \* whole days to the target when the page is mounted

VARIABLES
    form,           \* useState({first_name, last_name, phone, guests, kids, kids_count})
    sending,        \* useState(false)
    confetti,       \* useState(false)
    itoast,         \* the toast shown: "none", "ok", "err"
    inserts,        \* the insert requests and the submitRSVP calls awaiting them
    ilast,          \* the form step taken last
    lightbox,       \* useState<{src, i} | null>
    lbExiting,      \* the lightbox is leaving through AnimatePresence
    lbPath,         \* the indices shown since the lightbox was opened
    lbTrail,        \* the directions stepped since the lightbox was opened
    lblast,         \* the lightbox step taken last
    count,          \* useState({d, h, m, s})
    untilTarget,    \* target - Date.now() at the last tick, in ms
    ticks           \* runs of tick after the first

rsvpVars == <<form, sending, confetti, itoast, inserts, ilast>>
lightboxVars == <<lightbox, lbExiting, lbPath, lbTrail, lblast>>
countdownVars == <<count, untilTarget, ticks>>
inviteVars == <<rsvpVars, lightboxVars, countdownVars>>

\* the components that are not the one a specification is about
pageVars == <<musicVars, inviteVars>>

\* ---- React: setPhase and the render that follows ----

\* AnimatePresence around {showFinalHit && <motion.button .../>}: when the
\* render stops showing hitFinal the button stays until its exit animation ends.
ExitingAfter(old, new, was) ==
    IF new = "ready" THEN FALSE
    ELSE IF old = "ready" THEN TRUE
    ELSE was

\* setPhase(p); a state update of an unmounted component is dropped.
SetPhase(p) ==
    IF mounted
    THEN /\ phase' = p
         /\ exitingFinal' = ExitingAfter(phase, p, exitingFinal)
    ELSE UNCHANGED <<phase, exitingFinal>>

\* ---- the <video> element ----

\* pause() (or removal from the document): pending play() promises are rejected.
\* The rejected promise of startVideo's first play() runs its catch block,
\* which sets the retry timer; the rejected retry play() is ignored.
PcAfterAbort(p) ==
    IF p = "play" THEN "timer"
    ELSE IF p = "retry" THEN "done"
    ELSE p

AbortedPlays == Cardinality({c \in Calls : pc[c] = "play"})

\* the video starts playing: pending play() promises are resolved.
PcAfterPlaying(p) == IF p \in {"play", "retry"} THEN "done" ELSE p

\* play() accepted by the browser.
VStateAfterPlay(v) == IF v = "paused" THEN "waiting" ELSE v

\* no confirm modal is leaving the document
NoClosure == [row |-> 0, deletingId |-> 0, rows |-> <<>>, selected |-> 0]

\* no admin page is open
AdminIdle ==
    /\ server = {}
    /\ rows = <<>>
    /\ loading = FALSE
    /\ selected = 0
    /\ confirming = 0
    /\ deletingId = 0
    /\ toast = "none"
    /\ staleConfirm = NoClosure
    /\ dels = <<>>
    /\ loads = <<>>
    /\ session = FALSE
    /\ signOutSt = "none"
    /\ alast = "init"

\* the music provider as mounted: no Audio object yet
MusicIdle ==
    /\ audioRef = 0
    /\ audiosMade = 0
    /\ usedAudio = {}
    /\ aPaused = TRUE
    /\ aVolume = 0
    /\ aPlays = <<>>
    /\ aEvents = <<>>
    /\ isReady = FALSE
    /\ isPlaying = FALSE
    /\ mlast = "init"

\* useState's initial form
EmptyForm == [first_name |-> <<>>, last_name |-> <<>>, phone |-> <<>>,
              guests |-> 1, kids |-> FALSE, kids_count |-> 0]

RsvpIdle ==
    /\ form = EmptyForm
    /\ sending = FALSE
    /\ confetti = FALSE
    /\ itoast = "none"
    /\ inserts = <<>>
    /\ ilast = "init"

\* useState<{ src: string; i: number } | null>(null)
NoLightbox == [open |-> FALSE, src |-> "", i |-> 0]

LightboxIdle ==
    /\ lightbox = NoLightbox
    /\ lbExiting = FALSE
    /\ lbPath = <<>>
    /\ lbTrail = <<>>
    /\ lblast = "init"

CountdownIdle ==
    /\ count = [d |-> 0, h |-> 0, m |-> 0, s |-> 0]
    /\ untilTarget = 0
    /\ ticks = 0

InviteIdle == RsvpIdle /\ LightboxIdle /\ CountdownIdle

\* the other components at rest
PagesIdle == MusicIdle /\ InviteIdle

\* the portal as mounted
PortalStart ==
    /\ mounted = TRUE
    /\ phase = "idle"
    /\ exitingFinal = FALSE
    /\ pc = [c \in Calls |-> "none"]
    /\ musicOutcome = [c \in Calls |-> "none"]
    /\ vState = "paused"
    /\ startCalls = 0
    /\ musicStarts = 0
    /\ begun = 0
    /\ playCmds = 0
    /\ pauseCmds = 0
    /\ retryTimers = 0
    /\ retryTaps = 0
    /\ exitCalls = 0
    /\ navScheduled = 0
    /\ navTimers = 0
    /\ navigateCalls = 0
    /\ endedEvents = 0
    /\ tornDown = {}
    /\ last = "init"

Init ==
    /\ AdminIdle
    /\ PagesIdle
    /\ PortalStart

\* ---- helpers shared by the handlers ----

\* first unused slot for a startVideo invocation
FreeCall == CHOOSE c \in Calls : pc[c] = "none" /\ \A d \in Calls : d < c => pc[d] # "none"

HasFreeCall == \E c \in Calls : pc[c] = "none"

\* v.pause() as called by a handler (videoRef.current is set while mounted)
PauseVideo ==
    /\ pauseCmds' = pauseCmds + 1
    /\ vState' = "paused"
    /\ pc' = [c \in Calls |-> PcAfterAbort(pc[c])]
    /\ retryTimers' = retryTimers + AbortedPlays

\* ---- startVideo ----

\* startVideo without its first line
startVideoUnguarded(captured) ==
    /\ HasFreeCall
    /\ pc' = [pc EXCEPT ![FreeCall] = "music"]
    /\ musicStarts' = musicStarts + 1
    /\ last' = "startVideo:music"
    /\ UNCHANGED <<endedEvents, mounted, phase, exitingFinal, musicOutcome, vState,
                   begun, playCmds, pauseCmds, retryTimers, retryTaps,
                   exitCalls, navScheduled, navTimers, navigateCalls, tornDown>>

\* const startVideo = async () => { if (phase !== "idle") return; try { await music.start() ...
\* captured is the phase of the render whose closure is invoked.
startVideo(captured) ==
    IF captured # "idle"
    THEN /\ last' = "startVideo:return"
         /\ UNCHANGED <<endedEvents, mounted, phase, exitingFinal, pc, musicOutcome, vState,
                        musicStarts, begun, playCmds, pauseCmds, retryTimers,
                        retryTaps, exitCalls, navScheduled, navTimers,
                        navigateCalls, tornDown>>
    ELSE /\ HasFreeCall
         /\ pc' = [pc EXCEPT ![FreeCall] = "music"]
         /\ musicStarts' = musicStarts + 1
         /\ last' = "startVideo:music"
         /\ UNCHANGED <<endedEvents, mounted, phase, exitingFinal, musicOutcome, vState,
                        begun, playCmds, pauseCmds, retryTimers, retryTaps,
                        exitCalls, navScheduled, navTimers, navigateCalls, tornDown>>

\* the .hit button, rendered by {phase === "idle" && <button onClick={startVideo}/>}
StartTap ==
    /\ UNCHANGED <<adminVars, pageVars, pageVars>>
    /\ mounted
    /\ phase = "idle"
    /\ startCalls < MaxInvokes
    /\ startCalls' = startCalls + 1
    /\ startVideo(phase)

\* startVideo of the current render called directly, whatever the phase
StartInvoke ==
    /\ UNCHANGED <<adminVars, pageVars, pageVars>>
    /\ mounted
    /\ phase # "idle"
    /\ startCalls < MaxInvokes
    /\ startCalls' = startCalls + 1
    /\ startVideo(phase)

\* startVideo with no try/catch around a music.start() that throws when blocked
AfterMusicUncaught(c, o) ==
    /\ musicOutcome' = [musicOutcome EXCEPT ![c] = o]
    /\ IF o = "blocked"
       THEN /\ pc' = [pc EXCEPT ![c] = "done"]
            /\ UNCHANGED <<phase, exitingFinal>>
       ELSE /\ SetPhase("video")
            /\ pc' = [pc EXCEPT ![c] = "raf"]

\* music.start() settles: the audio play() was resolved ("played") or rejected
\* ("blocked"); MusicProvider.start catches the rejection, startVideo catches
\* whatever music.start throws.  Then setPhase("video"); requestAnimationFrame(...).
AfterMusic(c, o) ==
    /\ musicOutcome' = [musicOutcome EXCEPT ![c] = o]
    /\ SetPhase("video")
    /\ pc' = [pc EXCEPT ![c] = "raf"]

MusicSettles(c, o) ==
    /\ pc[c] = "music"
    /\ AfterMusic(c, o)
    /\ last' = "MusicSettles"
    /\ UNCHANGED <<adminVars, pageVars, endedEvents, startCalls, mounted, vState, musicStarts, begun, playCmds, pauseCmds,
                   retryTimers, retryTaps, exitCalls, navScheduled, navTimers,
                   navigateCalls, tornDown>>

\* the requestAnimationFrame callback: const v = videoRef.current; if (!v) return;
\* v.currentTime = 0; ...; await v.play(); catch => window.setTimeout(..., 120)
FrameCallback(c, accepted) ==
    IF ~mounted
    THEN /\ pc' = [pc EXCEPT ![c] = "done"]
         /\ UNCHANGED <<begun, playCmds, vState, retryTimers>>
    ELSE /\ begun' = begun + 1
         /\ playCmds' = playCmds + 1
         /\ IF accepted
            THEN /\ vState' = VStateAfterPlay(vState)
                 /\ pc' = [pc EXCEPT ![c] = IF vState = "playing" THEN "done" ELSE "play"]
                 /\ UNCHANGED retryTimers
            ELSE /\ pc' = [pc EXCEPT ![c] = "timer"]
                 /\ retryTimers' = retryTimers + 1
                 /\ UNCHANGED vState

Frame(c, accepted) ==
    /\ pc[c] = "raf"
    /\ FrameCallback(c, accepted)
    /\ last' = "Frame"
    /\ UNCHANGED <<adminVars, pageVars, endedEvents, startCalls, mounted, phase, exitingFinal, musicOutcome, musicStarts,
                   pauseCmds, retryTaps, exitCalls, navScheduled, navTimers,
                   navigateCalls, tornDown>>

\* the retry callback playing the element it captured when the timer was set
RetryCallbackCaptured(c, accepted) ==
    /\ playCmds' = playCmds + 1
    /\ IF accepted /\ mounted
       THEN /\ vState' = VStateAfterPlay(vState)
            /\ pc' = [pc EXCEPT ![c] = IF vState = "playing" THEN "done" ELSE "retry"]
       ELSE /\ pc' = [pc EXCEPT ![c] = "done"]
            /\ UNCHANGED vState

\* a retry callback that sets the timer again when its play() is rejected
RetryCallbackAgain(c, accepted) ==
    IF ~mounted
    THEN /\ pc' = [pc EXCEPT ![c] = "done"]
         /\ UNCHANGED <<playCmds, vState>>
    ELSE /\ playCmds' = playCmds + 1
         /\ IF accepted
            THEN /\ vState' = VStateAfterPlay(vState)
                 /\ pc' = [pc EXCEPT ![c] = IF vState = "playing" THEN "done" ELSE "retry"]
            ELSE /\ pc' = [pc EXCEPT ![c] = "timer"]
                 /\ UNCHANGED vState

\* the retry timer's callback: try { await videoRef.current?.play() } catch {}
RetryCallback(c, accepted) ==
    IF ~mounted
    THEN /\ pc' = [pc EXCEPT ![c] = "done"]
         /\ UNCHANGED <<playCmds, vState>>
    ELSE /\ playCmds' = playCmds + 1
         /\ IF accepted
            THEN /\ vState' = VStateAfterPlay(vState)
                 /\ pc' = [pc EXCEPT ![c] = IF vState = "playing" THEN "done" ELSE "retry"]
            ELSE /\ pc' = [pc EXCEPT ![c] = "done"]
                 /\ UNCHANGED vState

\* a retry timer that gives up on a rejected retry by showing the final hit
RetryTimerFallback(c, accepted) ==
    /\ pc[c] = "timer"
    /\ RetryCallback(c, accepted)
    /\ IF accepted THEN UNCHANGED <<phase, exitingFinal>> ELSE SetPhase("ready")
    /\ last' = "RetryTimerFires"
    /\ UNCHANGED <<adminVars, pageVars, endedEvents, startCalls, mounted, musicOutcome, musicStarts, begun,
                   pauseCmds, retryTimers, retryTaps, exitCalls, navScheduled,
                   navTimers, navigateCalls, tornDown>>

RetryTimerFires(c, accepted) ==
    /\ pc[c] = "timer"
    /\ RetryCallback(c, accepted)
    /\ last' = "RetryTimerFires"
    /\ UNCHANGED <<adminVars, pageVars, endedEvents, startCalls, mounted, phase, exitingFinal, musicOutcome, musicStarts, begun,
                   pauseCmds, retryTimers, retryTaps, exitCalls, navScheduled,
                   navTimers, navigateCalls, tornDown>>

\* the browser starts the playback that an accepted play() asked for
PlaybackStarts ==
    /\ vState = "waiting"
    /\ vState' = "playing"
    /\ pc' = [c \in Calls |-> PcAfterPlaying(pc[c])]
    /\ last' = "PlaybackStarts"
    /\ UNCHANGED <<adminVars, pageVars, endedEvents, startCalls, mounted, phase, exitingFinal, musicOutcome, musicStarts, begun,
                   playCmds, pauseCmds, retryTimers, retryTaps, exitCalls,
                   navScheduled, navTimers, navigateCalls, tornDown>>

\* ---- the tapToPlay overlay ----

\* the overlay rendered in every phase
RetryTapAnyPhase(accepted) ==
    /\ mounted
    /\ retryTaps < MaxRetryTaps
    /\ retryTaps' = retryTaps + 1
    /\ playCmds' = playCmds + 1
    /\ vState' = IF accepted THEN VStateAfterPlay(vState) ELSE vState
    /\ last' = "RetryTap"
    /\ UNCHANGED <<adminVars, pageVars, endedEvents, startCalls, mounted, phase, exitingFinal, pc, musicOutcome,
                   musicStarts, begun, pauseCmds, retryTimers, exitCalls, navScheduled,
                   navTimers, navigateCalls, tornDown>>

\* an overlay whose rejected play() sends the portal back to idle
RetryTapResets(accepted) ==
    /\ mounted
    /\ phase = "video"
    /\ retryTaps < MaxRetryTaps
    /\ retryTaps' = retryTaps + 1
    /\ playCmds' = playCmds + 1
    /\ vState' = IF accepted THEN VStateAfterPlay(vState) ELSE vState
    /\ IF accepted THEN UNCHANGED <<phase, exitingFinal>> ELSE SetPhase("idle")
    /\ last' = "RetryTap"
    /\ UNCHANGED <<adminVars, pageVars, endedEvents, startCalls, mounted, pc, musicOutcome,
                   musicStarts, begun, pauseCmds, retryTimers, exitCalls, navScheduled,
                   navTimers, navigateCalls, tornDown>>

\* {phase === "video" && <button onClick={() => { videoRef.current?.play().catch(() => {}) }}/>}
RetryTap(accepted) ==
    /\ mounted
    /\ phase = "video"
    /\ retryTaps < MaxRetryTaps
    /\ retryTaps' = retryTaps + 1
    /\ playCmds' = playCmds + 1
    /\ vState' = IF accepted THEN VStateAfterPlay(vState) ELSE vState
    /\ last' = "RetryTap"
    /\ UNCHANGED <<adminVars, pageVars, endedEvents, startCalls, mounted, phase, exitingFinal, pc, musicOutcome, musicStarts,
                   begun, pauseCmds, retryTimers, exitCalls, navScheduled,
                   navTimers, navigateCalls, tornDown>>

\* ---- onVideoEnded ----

\* an onVideoEnded that only shows the final hit when nobody tapped the overlay
onVideoEndedUntapped ==
    /\ mounted
    /\ vState = "playing"
    /\ PauseVideo
    /\ IF retryTaps = 0 THEN SetPhase("ready") ELSE UNCHANGED <<phase, exitingFinal>>
    /\ endedEvents' = endedEvents + 1
    /\ last' = "onVideoEnded"
    /\ UNCHANGED <<adminVars, pageVars, startCalls, mounted, musicOutcome, musicStarts, begun, playCmds,
                   retryTaps, exitCalls, navScheduled, navTimers, navigateCalls, tornDown>>

\* <video onEnded={onVideoEnded}/>: v.pause(); v.currentTime = safeEnd; setPhase("ready")
onVideoEnded ==
    /\ mounted
    /\ vState = "playing"
    /\ PauseVideo
    /\ SetPhase("ready")
    /\ endedEvents' = endedEvents + 1
    /\ last' = "onVideoEnded"
    /\ UNCHANGED <<adminVars, pageVars, startCalls, mounted, musicOutcome, musicStarts, begun, playCmds, retryTaps,
                   exitCalls, navScheduled, navTimers, navigateCalls, tornDown>>

\* ---- goInvite ----

\* a goInvite that sets no navigation timer
goInviteNoTimer(captured) ==
    /\ SetPhase("leaving")
    /\ PauseVideo
    /\ last' = "goInvite"
    /\ UNCHANGED <<adminVars, pageVars, endedEvents, startCalls, mounted, musicOutcome, musicStarts, begun,
                   playCmds, retryTaps, navScheduled, navTimers, navigateCalls, tornDown>>

\* if (phase === "leaving") return; setPhase("leaving"); videoRef.current?.pause();
\* window.setTimeout(() => navigate("/invite"), NAV_DELAY_MS)
goInvite(captured) ==
    IF captured = "leaving"
    THEN /\ last' = "goInvite:return"
         /\ UNCHANGED <<adminVars, pageVars, endedEvents, startCalls, mounted, phase, exitingFinal, pc, musicOutcome, vState,
                        musicStarts, begun, playCmds, pauseCmds, retryTimers,
                        retryTaps, navScheduled, navTimers, navigateCalls, tornDown>>
    ELSE /\ SetPhase("leaving")
         /\ PauseVideo
         /\ navScheduled' = navScheduled + 1
         /\ navTimers' = navTimers + 1
         /\ last' = "goInvite"
         /\ UNCHANGED <<adminVars, pageVars, endedEvents, startCalls, mounted, musicOutcome, musicStarts, begun, playCmds,
                        retryTaps, navigateCalls, tornDown>>

\* the phase that the hitFinal button in the document was rendered with:
\* it is only rendered by {showFinalHit && ...}, showFinalHit = phase === "ready"
HitFinalPhase == "ready"

\* a tap on hitFinal, shown by the current render or still leaving the document
ExitTap ==
    /\ mounted
    /\ phase = "ready" \/ exitingFinal
    /\ exitCalls < MaxExitTaps
    /\ exitCalls' = exitCalls + 1
    /\ goInvite(HitFinalPhase)

\* the exit animation of hitFinal (transition duration 0.25) is over
ExitAnimationDone ==
    /\ exitingFinal
    /\ exitingFinal' = FALSE
    /\ last' = "ExitAnimationDone"
    /\ UNCHANGED <<adminVars, pageVars, endedEvents, startCalls, mounted, phase, pc, musicOutcome, vState, musicStarts, begun,
                   playCmds, pauseCmds, retryTimers, retryTaps, exitCalls,
                   navScheduled, navTimers, navigateCalls, tornDown>>

\* window.setTimeout(() => navigate("/invite"), NAV_DELAY_MS) fires
NavTimerFires ==
    /\ navTimers > 0
    /\ navTimers' = navTimers - 1
    /\ navigateCalls' = navigateCalls + 1
    /\ last' = "NavTimerFires"
    /\ UNCHANGED <<adminVars, pageVars, endedEvents, startCalls, mounted, phase, exitingFinal, pc, musicOutcome, vState,
                   musicStarts, begun, playCmds, pauseCmds, retryTimers,
                   retryTaps, exitCalls, navScheduled, tornDown>>

\* ---- teardown ----

\* What the component does when it is unmounted: its effects' cleanups only
\* remove the loadeddata / loadedmetadata listeners; no timer is cleared.
\* React detaches videoRef and the <video> leaves the document (which pauses it).
PendingAtTeardown ==
    (IF navTimers > 0 THEN {"nav"} ELSE {})
    \cup (IF \E c \in Calls : pc[c] = "timer" THEN {"retry"} ELSE {})
    \cup (IF \E c \in Calls : pc[c] \in {"music", "raf"} THEN {"start"} ELSE {})

Unmount ==
    /\ mounted
    /\ mounted' = FALSE
    /\ exitingFinal' = FALSE
    /\ vState' = "paused"
    /\ pc' = [c \in Calls |-> PcAfterAbort(pc[c])]
    /\ retryTimers' = retryTimers + AbortedPlays
    /\ tornDown' = PendingAtTeardown \cup {"unmounted"}
    /\ last' = "Unmount"
    /\ UNCHANGED <<adminVars, pageVars, endedEvents, startCalls, phase, musicOutcome, musicStarts, begun, playCmds, pauseCmds,
                   retryTaps, exitCalls, navScheduled, navTimers, navigateCalls>>

Next ==
    \/ StartTap
    \/ \E c \in Calls, o \in {"played", "blocked"} : MusicSettles(c, o)
    \/ \E c \in Calls, accepted \in BOOLEAN : Frame(c, accepted)
    \/ \E c \in Calls, accepted \in BOOLEAN : RetryTimerFires(c, accepted)
    \/ PlaybackStarts
    \/ \E accepted \in BOOLEAN : RetryTap(accepted)
    \/ onVideoEnded
    \/ ExitTap
    \/ ExitAnimationDone
    \/ NavTimerFires
    \/ Unmount

Spec == Init /\ [][Next]_vars

\* the same, with startVideo also called directly in the phases that show no .hit button
NextInvoke == Next \/ StartInvoke

SpecInvoke == Init /\ [][NextInvoke]_vars

\* the event loop runs a timer that is due
SpecFair == Init /\ [][Next]_vars /\ WF_vars(NavTimerFires)

\* the hit regions in the document that take a tap: the .hit button
\* ({phase === "idle" && ...}), the tapToPlay overlay ({phase === "video" && ...})
\* and hitFinal ({showFinalHit && ...} inside AnimatePresence; fadeElegant
\* above it has pointer-events:none)
ActiveRegions ==
    IF ~mounted THEN {}
    ELSE (IF phase = "idle" THEN {"entry"} ELSE {})
         \cup (IF phase = "video" THEN {"retry"} ELSE {})
         \cup (IF phase = "ready" \/ exitingFinal THEN {"exit"} ELSE {})

\* ==== the admin page: load, askDelete, confirmDelete, deleteRSVP ====

RECURSIVE Without(_, _)
\* p.filter((x) => x.id !== id)
Without(list, id) ==
    IF list = <<>> THEN <<>>
    ELSE IF Head(list) = id THEN Without(Tail(list), id)
    ELSE <<Head(list)>> \o Without(Tail(list), id)

Has(list, id) == \E i \in 1..Len(list) : list[i] = id

RECURSIVE Newest(_, _)
\* .select(...).order("created_at", { ascending: false }): ids stand for the
\* order of creation, n is the largest id looked at
Newest(table, n) ==
    IF n = 0 THEN <<>>
    ELSE (IF n \in table THEN <<n>> ELSE <<>>) \o Newest(table, n - 1)

\* the admin page with a session, once the load() of the session effect has
\* returned the table; the portal is not touched
AdminInit ==
    /\ PortalStart
    /\ PagesIdle
    /\ server \in SUBSET Ids
    /\ rows = Newest(server, MaxRows)
    /\ loading = FALSE
    /\ selected = 0
    /\ confirming = 0
    /\ deletingId = 0
    /\ toast = "none"
    /\ staleConfirm = NoClosure
    /\ dels = <<>>
    /\ loads = <<>>
    /\ session = TRUE
    /\ signOutSt = "none"
    /\ alast = "init"

\* the confirm modal is inside <AnimatePresence>{confirming ? ... : null}: a
\* render that stops showing it leaves it in the document with the closures
\* of the last render that showed it
ConfirmClosure == [row |-> confirming, deletingId |-> deletingId, rows |-> rows, selected |-> selected]

StaleConfirmAfter(newConfirming) ==
    IF newConfirming # 0 THEN NoClosure
    ELSE IF confirming # 0 THEN ConfirmClosure
    ELSE staleConfirm

\* load(): setErrMsg(null); setLoading(true); the select is sent
LoadStart ==
    /\ session
    /\ Len(loads) < MaxLoads
    /\ loading' = TRUE
    /\ loads' = Append(loads, [st |-> "sent", data |-> <<>>])
    /\ alast' = "LoadStart"
    /\ UNCHANGED <<vars, pageVars, session, signOutSt, server, rows, selected, confirming, deletingId, toast, staleConfirm, dels>>

\* the remote store answers the select
LoadServed(i, ok) ==
    /\ i \in 1..Len(loads)
    /\ loads[i].st = "sent"
    /\ loads' = [loads EXCEPT ![i] = IF ok THEN [st |-> "ok", data |-> Newest(server, MaxRows)]
                                     ELSE [st |-> "error", data |-> <<>>]]
    /\ alast' = "LoadServed"
    /\ UNCHANGED <<vars, pageVars, session, signOutSt, server, rows, loading, selected, confirming, deletingId, toast,
                   staleConfirm, dels>>

\* load() after its await: setLoading(false); error => toast, return; setRows(data)
LoadReturns(i) ==
    /\ i \in 1..Len(loads)
    /\ loads[i].st \in {"ok", "error"}
    /\ loading' = FALSE
    /\ IF loads[i].st = "error"
       THEN toast' = "err" /\ UNCHANGED rows
       ELSE rows' = loads[i].data /\ UNCHANGED toast
    /\ loads' = [loads EXCEPT ![i].st = "done"]
    /\ alast' = "LoadReturns"
    /\ UNCHANGED <<vars, pageVars, session, signOutSt, server, selected, confirming, deletingId, staleConfirm, dels>>

\* a row card of the list: onClick={() => setSelected(r)}
Select(r) ==
    /\ session
    /\ ~loading
    /\ Has(rows, r)
    /\ selected # r
    /\ selected' = r
    /\ alast' = "Select"
    /\ UNCHANGED <<vars, pageVars, session, signOutSt, server, rows, loading, confirming, deletingId, toast, staleConfirm,
                   dels, loads>>

\* askDelete(row): if (deletingId) return; setConfirming(row)
askDelete(row) ==
    /\ IF deletingId # 0
       THEN UNCHANGED <<confirming, staleConfirm>>
       ELSE /\ confirming' = row
            /\ staleConfirm' = StaleConfirmAfter(row)
    /\ alast' = "askDelete"
    /\ UNCHANGED <<vars, pageVars, session, signOutSt, server, rows, loading, selected, deletingId, toast, dels, loads>>

\* the Eliminar button of a row of the list (disabled={deletingId === r.id})
AskDeleteRow(r) ==
    /\ session
    /\ ~loading
    /\ Has(rows, r)
    /\ deletingId # r
    /\ confirming # r
    /\ askDelete(r)

\* the Eliminar button of the detail modal (disabled={deletingId === selected.id})
AskDeleteSelected ==
    /\ session
    /\ selected # 0
    /\ deletingId # selected
    /\ confirming # selected
    /\ askDelete(selected)

\* Cancelar, or a click on the overlay: setConfirming(null)
CancelConfirm ==
    /\ session
    /\ confirming # 0
    /\ confirming' = 0
    /\ staleConfirm' = StaleConfirmAfter(0)
    /\ alast' = "CancelConfirm"
    /\ UNCHANGED <<vars, pageVars, session, signOutSt, server, rows, loading, selected, deletingId, toast, dels, loads>>

\* the exit animation of the confirm modal is over
ConfirmAnimationDone ==
    /\ session
    /\ staleConfirm.row # 0
    /\ staleConfirm' = NoClosure
    /\ alast' = "ConfirmAnimationDone"
    /\ UNCHANGED <<vars, pageVars, session, signOutSt, server, rows, loading, selected, confirming, deletingId, toast,
                   dels, loads>>

\* deleteRSVP(row) up to its await, in the closure cl of the render it belongs to:
\* if (deletingId) return; setDeletingId(row.id); const prev = rows;
\* setRows((p) => p.filter(...)); if (selected?.id === row.id) setSelected(null); send
deleteRSVP(row, cl) ==
    IF cl.deletingId # 0
    THEN UNCHANGED <<deletingId, rows, selected, dels>>
    ELSE /\ Len(dels) < MaxDeletes
         /\ deletingId' = row
         /\ rows' = Without(rows, row)
         /\ selected' = IF cl.selected = row THEN 0 ELSE selected
         /\ dels' = Append(dels, [id |-> row, prev |-> cl.rows, held |-> rows, st |-> "sent"])

\* confirmDelete in the closure cl:
\* if (!confirming) return; const row = confirming; setConfirming(null); await deleteRSVP(row)
confirmDelete(cl) ==
    /\ cl.row # 0
    /\ confirming' = 0
    /\ staleConfirm' = IF confirming # 0 THEN ConfirmClosure ELSE staleConfirm
    /\ deleteRSVP(cl.row, cl)
    /\ UNCHANGED <<vars, pageVars, session, signOutSt, server, loading, toast, loads>>

\* "Sí, eliminar" of the modal the current render shows
ConfirmTap ==
    /\ session
    /\ confirming # 0
    /\ alast' = "ConfirmTap"
    /\ confirmDelete(ConfirmClosure)

\* "Sí, eliminar" of the modal that is still leaving the document
StaleConfirmTap ==
    /\ session
    /\ confirming = 0
    /\ staleConfirm.row # 0
    /\ alast' = "StaleConfirmTap"
    /\ confirmDelete(staleConfirm)

\* the remote store answers the delete
DeleteServed(i, ok) ==
    /\ i \in 1..Len(dels)
    /\ dels[i].st = "sent"
    /\ server' = IF ok THEN server \ {dels[i].id} ELSE server
    /\ dels' = [dels EXCEPT ![i].st = IF ok THEN "ok" ELSE "error"]
    /\ alast' = "DeleteServed"
    /\ UNCHANGED <<vars, pageVars, session, signOutSt, rows, loading, selected, confirming, deletingId, toast,
                   staleConfirm, loads>>

\* deleteRSVP after its await: setDeletingId(null);
\* error => setRows(prev); showToast("err", ...); return;  showToast("ok", ...)
DeleteContinues(d) ==
    /\ deletingId' = 0
    /\ IF d.st = "error"
       THEN rows' = d.prev /\ toast' = "err"
       ELSE toast' = "ok" /\ UNCHANGED rows

DeleteReturns(i) ==
    /\ i \in 1..Len(dels)
    /\ dels[i].st \in {"ok", "error"}
    /\ DeleteContinues(dels[i])
    /\ dels' = [dels EXCEPT ![i].st = IF dels[i].st = "ok" THEN "done:ok" ELSE "done:error"]
    /\ alast' = "DeleteReturns"
    /\ UNCHANGED <<vars, pageVars, session, signOutSt, server, loading, selected, confirming, staleConfirm, loads>>

\* showToast's window.setTimeout(() => setToast(null), 2600)
ToastExpires ==
    /\ toast # "none"
    /\ toast' = "none"
    /\ alast' = "ToastExpires"
    /\ UNCHANGED <<vars, pageVars, session, signOutSt, server, rows, loading, selected, confirming, deletingId,
                   staleConfirm, dels, loads>>

\* signOut(), up to its await: supabase.auth.signOut() is sent
SignOutStart ==
    /\ session
    /\ signOutSt = "none"
    /\ signOutSt' = "sent"
    /\ alast' = "SignOutStart"
    /\ UNCHANGED <<vars, pageVars, server, rows, loading, selected, confirming, deletingId, toast,
                   staleConfirm, dels, loads, session>>

\* the session is ended: onAuthStateChange calls setSession(null) and the
\* page renders the login card instead of the list and its modals
SignOutServed ==
    /\ signOutSt = "sent"
    /\ signOutSt' = "served"
    /\ session' = FALSE
    /\ staleConfirm' = NoClosure
    /\ alast' = "SignOutServed"
    /\ UNCHANGED <<vars, pageVars, server, rows, loading, selected, confirming, deletingId, toast,
                   dels, loads>>

\* signOut(), after its await: setRows([]); setSelected(null);
\* setConfirming(null); showToast("ok", ...)
SignOutReturns ==
    /\ signOutSt = "served"
    /\ signOutSt' = "done"
    /\ rows' = <<>>
    /\ selected' = 0
    /\ confirming' = 0
    /\ toast' = "ok"
    /\ alast' = "SignOutReturns"
    /\ UNCHANGED <<vars, pageVars, server, loading, deletingId, staleConfirm, dels, loads, session>>

AdminNext ==
    \/ LoadStart
    \/ \E i \in 1..MaxLoads, ok \in BOOLEAN : LoadServed(i, ok)
    \/ \E i \in 1..MaxLoads : LoadReturns(i)
    \/ \E r \in Ids : Select(r)
    \/ \E r \in Ids : AskDeleteRow(r)
    \/ AskDeleteSelected
    \/ CancelConfirm
    \/ ConfirmAnimationDone
    \/ ConfirmTap
    \/ StaleConfirmTap
    \/ \E i \in 1..MaxDeletes, ok \in BOOLEAN : DeleteServed(i, ok)
    \/ \E i \in 1..MaxDeletes : DeleteReturns(i)
    \/ ToastExpires
    \/ SignOutStart
    \/ SignOutServed
    \/ SignOutReturns

allVars == <<vars, adminVars>>

AdminSpec == AdminInit /\ [][AdminNext]_allVars

\* ==== the music provider: ensureAudio, start, stop, setVolume ====

\* a.volume = Math.max(0, Math.min(1, v)), in tenths
ClampVolume(v) == IF v < 0 THEN 0 ELSE IF v > 10 THEN 10 ELSE v

\* ensureAudio without its first line: a new Audio on every call
ensureAudioAlways == audiosMade + 1

\* ensureAudio(): if (audioRef.current) return audioRef.current; otherwise the
\* Audio object constructed now
ensureAudio == IF audioRef # 0 THEN audioRef ELSE audiosMade + 1

\* the element a call got from ensureAudio: the one held, or a fresh one
\* (paused, nothing queued); audioRef.current = a
EnsuredAudio(a) ==
    /\ audioRef' = a
    /\ audiosMade' = IF a = audioRef THEN audiosMade ELSE audiosMade + 1
    /\ usedAudio' = usedAudio \cup {a}

\* a.volume = 0.6 in ensureAudio, in tenths
InitialVolume == 6

\* a.volume of the element a call works on
VolumeOf(a) == IF a = audioRef THEN aVolume ELSE InitialVolume

\* the element's pending play() promises are rejected (load(), pause())
RejectPending(plays) ==
    [i \in 1..Len(plays) |->
        IF plays[i].play = "pending" THEN [plays[i] EXCEPT !.play = "rejected"] ELSE plays[i]]

\* the listeners ensureAudio adds to the element
Listener(ev) ==
    /\ isReady' = (IF ev = "canplay" THEN TRUE ELSE isReady)
    /\ isPlaying' = (IF ev = "play" THEN TRUE
                     ELSE IF ev \in {"pause", "ended"} THEN FALSE
                     ELSE isPlaying)

\* start(), up to its await: ensureAudio(); a.load() puts the element back to
\* paused without a 'pause' event, rejects the pending play() promises and
\* drops the events not yet dispatched; a.play() is rejected at once when the
\* browser blocks it, else the element leaves paused and queues 'play'.
MusicStart(allowed) ==
    /\ Len(aPlays) < MaxMusicStarts
    /\ EnsuredAudio(ensureAudio)
    /\ aVolume' = VolumeOf(ensureAudio)
    /\ aPaused' = ~allowed
    /\ aEvents' = IF allowed THEN <<"play">> ELSE <<>>
    /\ aPlays' = Append(RejectPending(aPlays),
                        [play |-> IF allowed THEN "pending" ELSE "rejected", start |-> "running"])
    /\ mlast' = "start"
    /\ UNCHANGED <<vars, adminVars, inviteVars, isReady, isPlaying>>

\* the element starts playing: the pending play() promise is resolved
PlayResolves(i) ==
    /\ i \in 1..Len(aPlays)
    /\ aPlays[i].play = "pending"
    /\ ~aPaused
    /\ aPlays' = [aPlays EXCEPT ![i].play = "fulfilled"]
    /\ mlast' = "PlayResolves"
    /\ UNCHANGED <<vars, adminVars, inviteVars, audioRef, audiosMade, usedAudio, aPaused, aVolume, aEvents,
                   isReady, isPlaying>>

\* the source cannot be played: the pending play() promise is rejected
PlayFails(i) ==
    /\ i \in 1..Len(aPlays)
    /\ aPlays[i].play = "pending"
    /\ aPlays' = [aPlays EXCEPT ![i].play = "rejected"]
    /\ mlast' = "PlayFails"
    /\ UNCHANGED <<vars, adminVars, inviteVars, audioRef, audiosMade, usedAudio, aPaused, aVolume, aEvents,
                   isReady, isPlaying>>

\* start() without its catch block
StartContinuesUncaught(i) ==
    /\ i \in 1..Len(aPlays)
    /\ aPlays[i].start = "running"
    /\ aPlays[i].play \in {"fulfilled", "rejected"}
    /\ aPlays' = [aPlays EXCEPT ![i].start =
                      IF aPlays[i].play = "rejected" THEN "rejected" ELSE "resolved"]
    /\ mlast' = "StartContinues"
    /\ UNCHANGED <<vars, adminVars, inviteVars, audioRef, audiosMade, usedAudio, aPaused, aVolume, aEvents,
                   isReady, isPlaying>>

\* start(), after its await: try { await a.play() } catch { setIsPlaying(false) }
StartContinues(i) ==
    /\ i \in 1..Len(aPlays)
    /\ aPlays[i].start = "running"
    /\ aPlays[i].play \in {"fulfilled", "rejected"}
    /\ aPlays' = [aPlays EXCEPT ![i].start = "resolved"]
    /\ isPlaying' = (IF aPlays[i].play = "rejected" THEN FALSE ELSE isPlaying)
    /\ mlast' = "StartContinues"
    /\ UNCHANGED <<vars, adminVars, inviteVars, audioRef, audiosMade, usedAudio, aPaused, aVolume, aEvents,
                   isReady>>

\* stop(): const a = audioRef.current; if (!a) return; a.pause()
MusicStop ==
    /\ IF audioRef = 0
       THEN UNCHANGED <<usedAudio, aPaused, aEvents, aPlays>>
       ELSE /\ usedAudio' = usedAudio \cup {audioRef}
            /\ aPaused' = TRUE
            /\ aEvents' = IF aPaused THEN aEvents ELSE Append(aEvents, "pause")
            /\ aPlays' = IF aPaused THEN aPlays ELSE RejectPending(aPlays)
    /\ mlast' = "stop"
    /\ UNCHANGED <<vars, adminVars, inviteVars, audioRef, audiosMade, aVolume, isReady, isPlaying>>

\* setVolume(v): const a = ensureAudio(); a.volume = clamp(v)
MusicSetVolume(v) ==
    /\ EnsuredAudio(ensureAudio)
    /\ aVolume' = ClampVolume(v)
    /\ mlast' = "setVolume"
    /\ UNCHANGED <<vars, adminVars, inviteVars, aPaused, aPlays, aEvents, isReady, isPlaying>>

\* the element dispatches the event it queued first
DispatchEvent ==
    /\ aEvents # <<>>
    /\ Listener(Head(aEvents))
    /\ aEvents' = Tail(aEvents)
    /\ mlast' = "event"
    /\ UNCHANGED <<vars, adminVars, inviteVars, audioRef, audiosMade, usedAudio, aPaused, aVolume, aPlays>>

\* the element has enough data to play: 'canplay'
CanPlay ==
    /\ audioRef # 0
    /\ ~isReady
    /\ Listener("canplay")
    /\ mlast' = "canplay"
    /\ UNCHANGED <<vars, adminVars, inviteVars, audioRef, audiosMade, usedAudio, aPaused, aVolume, aPlays,
                   aEvents>>

MusicInit ==
    /\ PortalStart
    /\ AdminIdle
    /\ MusicIdle
    /\ InviteIdle

MusicNext ==
    \/ \E allowed \in BOOLEAN : MusicStart(allowed)
    \/ \E i \in 1..MaxMusicStarts : PlayResolves(i)
    \/ \E i \in 1..MaxMusicStarts : PlayFails(i)
    \/ \E i \in 1..MaxMusicStarts : StartContinues(i)
    \/ MusicStop
    \/ \E v \in Volumes : MusicSetVolume(v)
    \/ DispatchEvent
    \/ CanPlay

MusicSpec == MusicInit /\ [][MusicNext]_musicVars

\* ==== the invitation page: submitRSVP ====

Chars == {" ", "a"}

\* what can be typed into a text field
Texts == UNION {[1..k -> Chars] : k \in 0..MaxText}

GuestCounts == {0, 1, 2}    \* Number(e.target.value) of the guests input
KidCounts == {0, 1}         \* Number(e.target.value) of the kids_count input

RECURSIVE TrimStart(_)
TrimStart(t) == IF t # <<>> /\ Head(t) = " " THEN TrimStart(Tail(t)) ELSE t

RECURSIVE TrimEnd(_)
TrimEnd(t) == IF t # <<>> /\ t[Len(t)] = " " THEN TrimEnd(SubSeq(t, 1, Len(t) - 1)) ELSE t

\* String.prototype.trim
Trim(t) == TrimEnd(TrimStart(t))

\* the payload built from the fields as typed, without trim()
PayloadUntrimmed(f) ==
    [first_name |-> f.first_name,
     last_name |-> f.last_name,
     phone |-> f.phone,
     guests_count |-> IF f.guests = 0 THEN 1 ELSE f.guests,
     kids |-> f.kids,
     kids_count |-> IF f.kids THEN f.kids_count ELSE 0]

\* const payload: RSVPInsert = {...}; Number(x) || 1 is 1 for 0
Payload(f) ==
    [first_name |-> Trim(f.first_name),
     last_name |-> Trim(f.last_name),
     phone |-> Trim(f.phone),
     guests_count |-> IF f.guests = 0 THEN 1 ELSE f.guests,
     kids |-> f.kids,
     kids_count |-> IF f.kids THEN f.kids_count ELSE 0]

\* !payload.first_name || !payload.last_name || !payload.phone
Incomplete(p) == p.first_name = <<>> \/ p.last_name = <<>> \/ p.phone = <<>>

InsertsInFlight == {i \in 1..Len(inserts) : inserts[i] \in {"sent", "ok", "error"}}

\* onChange of the three text inputs
EditText(field, v) ==
    /\ form' = [form EXCEPT ![field] = v]
    /\ ilast' = "edit"
    /\ UNCHANGED <<vars, adminVars, musicVars, lightboxVars, countdownVars, sending, confetti,
                   itoast, inserts>>

\* onChange of the guests input
EditGuests(g) ==
    /\ form' = [form EXCEPT !.guests = g]
    /\ ilast' = "edit"
    /\ UNCHANGED <<vars, adminVars, musicVars, lightboxVars, countdownVars, sending, confetti,
                   itoast, inserts>>

\* onChange of the kids select
EditKids(b) ==
    /\ form' = [form EXCEPT !.kids = b]
    /\ ilast' = "edit"
    /\ UNCHANGED <<vars, adminVars, musicVars, lightboxVars, countdownVars, sending, confetti,
                   itoast, inserts>>

\* onChange of the kids_count input, disabled={!form.kids}
EditKidsCount(k) ==
    /\ form.kids
    /\ form' = [form EXCEPT !.kids_count = k]
    /\ ilast' = "edit"
    /\ UNCHANGED <<vars, adminVars, musicVars, lightboxVars, countdownVars, sending, confetti,
                   itoast, inserts>>

\* submitRSVP, up to its await; the form is submitted through its submit
\* button, which is disabled={sending}
submitRSVP ==
    /\ ~sending
    /\ ilast' = "submit"
    /\ IF Incomplete(Payload(form))
       THEN /\ itoast' = "err"
            /\ UNCHANGED <<sending, inserts>>
       ELSE /\ Len(inserts) < MaxInserts
            /\ sending' = TRUE
            /\ inserts' = Append(inserts, "sent")
            /\ UNCHANGED itoast
    /\ UNCHANGED <<vars, adminVars, musicVars, lightboxVars, countdownVars, form, confetti>>

\* the remote store answers the insert
InsertServed(i, ok) ==
    /\ i \in 1..Len(inserts)
    /\ inserts[i] = "sent"
    /\ inserts' = [inserts EXCEPT ![i] = IF ok THEN "ok" ELSE "error"]
    /\ ilast' = "served"
    /\ UNCHANGED <<vars, adminVars, musicVars, lightboxVars, countdownVars, form, sending, confetti,
                   itoast>>

\* submitRSVP after its await, resetting the form whatever the answer
InsertReturnsAlwaysReset(i) ==
    /\ i \in 1..Len(inserts)
    /\ inserts[i] \in {"ok", "error"}
    /\ sending' = FALSE
    /\ form' = EmptyForm
    /\ IF inserts[i] = "error"
       THEN itoast' = "err" /\ UNCHANGED confetti
       ELSE itoast' = "ok" /\ confetti' = TRUE
    /\ inserts' = [inserts EXCEPT ![i] = IF inserts[i] = "ok" THEN "done:ok" ELSE "done:error"]
    /\ ilast' = "returned"
    /\ UNCHANGED <<vars, adminVars, musicVars, lightboxVars, countdownVars>>

\* submitRSVP after its await: setSending(false); on error a toast and
\* return; else toast, confetti and setForm(defaults)
InsertReturns(i) ==
    /\ i \in 1..Len(inserts)
    /\ inserts[i] \in {"ok", "error"}
    /\ sending' = FALSE
    /\ IF inserts[i] = "error"
       THEN itoast' = "err" /\ UNCHANGED <<form, confetti>>
       ELSE itoast' = "ok" /\ confetti' = TRUE /\ form' = EmptyForm
    /\ inserts' = [inserts EXCEPT ![i] = IF inserts[i] = "ok" THEN "done:ok" ELSE "done:error"]
    /\ ilast' = "returned"
    /\ UNCHANGED <<vars, adminVars, musicVars, lightboxVars, countdownVars>>

\* showToast's window.setTimeout(() => setToast(null), 2800)
InviteToastExpires ==
    /\ itoast # "none"
    /\ itoast' = "none"
    /\ ilast' = "timer"
    /\ UNCHANGED <<vars, adminVars, musicVars, lightboxVars, countdownVars, form, sending, confetti,
                   inserts>>

\* window.setTimeout(() => setConfetti(false), 900)
ConfettiEnds ==
    /\ confetti
    /\ confetti' = FALSE
    /\ ilast' = "timer"
    /\ UNCHANGED <<vars, adminVars, musicVars, lightboxVars, countdownVars, form, sending, itoast,
                   inserts>>

RsvpInit ==
    /\ PortalStart
    /\ AdminIdle
    /\ MusicIdle
    /\ InviteIdle

RsvpNext ==
    \/ \E field \in {"first_name", "last_name", "phone"}, v \in Texts : EditText(field, v)
    \/ \E g \in GuestCounts : EditGuests(g)
    \/ \E b \in BOOLEAN : EditKids(b)
    \/ \E k \in KidCounts : EditKidsCount(k)
    \/ submitRSVP
    \/ \E i \in 1..MaxInserts, ok \in BOOLEAN : InsertServed(i, ok)
    \/ \E i \in 1..MaxInserts : InsertReturns(i)
    \/ InviteToastExpires
    \/ ConfettiEnds

RsvpSpec == RsvpInit /\ [][RsvpNext]_rsvpVars

\* ==== the invitation page: lightbox ====

\* WEDDING.carousel
carousel == <<"foto2", "foto3", "foto4", "foto5">>

\* a % b of JavaScript for b > 0: the sign of the result is the sign of a
JsMod(a, b) == IF a >= 0 THEN a % b ELSE 0 - ((0 - a) % b)

\* WEDDING.carousel[i], undefined outside the array
ImageAt(i) == IF i \in 0..(Len(carousel) - 1) THEN carousel[i + 1] ELSE "undefined"

\* goLightbox's updater without "+ n"
goLightboxNoWrap(lb, dir) ==
    IF ~lb.open THEN lb
    ELSE LET n == Len(carousel)
             nextI == JsMod(lb.i + dir, n)
         IN [open |-> TRUE, src |-> ImageAt(nextI), i |-> nextI]

\* the updater goLightbox passes to setLightbox
goLightbox(lb, dir) ==
    IF ~lb.open THEN lb
    ELSE LET n == Len(carousel)
             nextI == JsMod(lb.i + dir + n, n)
         IN [open |-> TRUE, src |-> ImageAt(nextI), i |-> nextI]

\* a slide of the carousel is clicked: onOpen(src, idx) with src = images[idx]
OpenLightbox(idx) ==
    /\ ~lightbox.open
    /\ lightbox' = [open |-> TRUE, src |-> ImageAt(idx), i |-> idx]
    /\ lbExiting' = FALSE
    /\ lbPath' = <<idx>>
    /\ lbTrail' = <<>>
    /\ lblast' = "open"
    /\ UNCHANGED <<vars, adminVars, musicVars, rsvpVars, countdownVars>>

\* Anterior / Siguiente, or ArrowLeft / ArrowRight while the lightbox is
\* open; the buttons are still there while the lightbox leaves the document
GoLightbox(dir) ==
    /\ lightbox.open \/ lbExiting
    /\ Len(lbTrail) < MaxLightboxSteps
    /\ lightbox' = goLightbox(lightbox, dir)
    /\ lbPath' = IF lightbox.open THEN Append(lbPath, lightbox'.i) ELSE lbPath
    /\ lbTrail' = IF lightbox.open THEN Append(lbTrail, dir) ELSE lbTrail
    /\ lblast' = "goLightbox"
    /\ UNCHANGED <<vars, adminVars, musicVars, rsvpVars, countdownVars, lbExiting>>

\* Cerrar, the backdrop or Escape: setLightbox(null)
CloseLightbox ==
    /\ lightbox.open
    /\ lightbox' = NoLightbox
    /\ lbExiting' = TRUE
    /\ lbPath' = <<>>
    /\ lbTrail' = <<>>
    /\ lblast' = "close"
    /\ UNCHANGED <<vars, adminVars, musicVars, rsvpVars, countdownVars>>

\* the exit animation of the lightbox is over
LightboxExitDone ==
    /\ lbExiting
    /\ lbExiting' = FALSE
    /\ lblast' = "exitDone"
    /\ UNCHANGED <<vars, adminVars, musicVars, rsvpVars, countdownVars, lightbox, lbPath, lbTrail>>

LightboxInit ==
    /\ PortalStart
    /\ AdminIdle
    /\ MusicIdle
    /\ InviteIdle

LightboxNext ==
    \/ \E idx \in 0..(Len(carousel) - 1) : OpenLightbox(idx)
    \/ \E dir \in {0 - 1, 1} : GoLightbox(dir)
    \/ CloseLightbox
    \/ LightboxExitDone

LightboxSpec == LightboxInit /\ [][LightboxNext]_lightboxVars

\* ==== the invitation page: countdown ====

\* target - Date.now() when the page is mounted, in ms: whole days plus a
\* remainder on either side of the boundaries of the decomposition
Remainders == {0 - 5000, 0 - 1, 0, 999, 1000, 59999, 3599000, 3600000, 86399999}

CountdownStarts == {d * 86400000 + r : d \in 0..MaxDays, r \in Remainders}

\* ms between two runs of tick: setInterval(tick, 1000), on time or late
Elapsed == {1000, 1001, 61000, 3600000}

\* tick without Math.max(0, ...)
tickUnclamped(left) ==
    LET diff == left
        total == diff \div 1000
    IN [d |-> total \div 86400,
        h |-> JsMod(total, 86400) \div 3600,
        m |-> JsMod(total, 3600) \div 60,
        s |-> JsMod(total, 60)]

\* tick(): the value given to setCount when target - Date.now() is left
tick(left) ==
    LET diff == IF left > 0 THEN left ELSE 0
        total == diff \div 1000
    IN [d |-> total \div 86400,
        h |-> JsMod(total, 86400) \div 3600,
        m |-> JsMod(total, 3600) \div 60,
        s |-> JsMod(total, 60)]

\* the interval timer runs tick
Tick(elapsed) ==
    /\ ticks < MaxTicks
    /\ untilTarget' = untilTarget - elapsed
    /\ count' = tick(untilTarget')
    /\ ticks' = ticks + 1
    /\ UNCHANGED <<vars, adminVars, musicVars, rsvpVars, lightboxVars>>

\* the page as mounted: the effect has run tick() once
CountdownInit ==
    /\ PortalStart
    /\ AdminIdle
    /\ MusicIdle
    /\ RsvpIdle
    /\ LightboxIdle
    /\ untilTarget \in CountdownStarts
    /\ count = tick(untilTarget)
    /\ ticks = 0

CountdownNext == \E elapsed \in Elapsed : Tick(elapsed)

CountdownSpec == CountdownInit /\ [][CountdownNext]_countdownVars

TypeOK ==
    /\ mounted \in BOOLEAN
    /\ phase \in Phases
    /\ exitingFinal \in BOOLEAN
    /\ pc \in [Calls -> {"none", "music", "raf", "play", "timer", "retry", "done"}]
    /\ musicOutcome \in [Calls -> {"none", "played", "blocked"}]
    /\ vState \in {"paused", "waiting", "playing"}
    /\ musicStarts \in 0..MaxStarts
    /\ navTimers \in 0..MaxExitTaps
    /\ navigateCalls \in 0..MaxExitTaps

\* ---- C1 ----
\* C1: the phase only ever changes along idle -> video -> ready -> leaving, one
\* step at a time; nothing skips a phase, goes back, or leaves "leaving".
PhaseOrder ==
    [][phase' = phase \/ <<phase, phase'>> \in
          {<<"idle", "video">>, <<"video", "ready">>, <<"ready", "leaving">>}]_vars

\* ---- C2 ----
\* C2: navigate("/invite") is called at most once, only while the phase is
\* leaving, and only by a navigation timer that goInvite scheduled.
NavigateAtMostOnce ==
    /\ [](navigateCalls <= 1)
    /\ [][navigateCalls' # navigateCalls =>
            phase = "leaving" /\ navTimers > 0 /\ navTimers' = navTimers - 1]_vars

\* ---- C3 ----
\* C3: two goInvite invocations in a row (the second through the button that
\* is still leaving the document) schedule one navigation timer and navigate once.
DoubleExitOneNavigation ==
    exitCalls >= 2 => navScheduled = 1 /\ navigateCalls <= 1

\* ---- C4 ----
\* C4: once the view was torn down with a navigation timer pending, navigate
\* is not called any more.
NoNavigateAfterTeardown ==
    [][("nav" \in tornDown) => navigateCalls' = navigateCalls]_vars

\* ---- C5 ----
\* C5: once the view was torn down with a retry timer pending, no play()
\* is issued any more.
NoRetryPlayAfterTeardown ==
    [][("retry" \in tornDown) => playCmds' = playCmds]_vars

\* a retry timer that was pending at teardown has fired afterwards
RetryFiredAfterTeardown ==
    /\ "retry" \in tornDown
    /\ last = "RetryTimerFires"

\* ---- C6 ----
\* C6: startVideo invoked while the phase is not idle changes nothing: the
\* phase stays, music.start is not called, no seek or play is issued.
StartNoopOutsideIdle ==
    [][(startCalls' # startCalls /\ phase # "idle") =>
          /\ phase' = phase
          /\ musicStarts' = musicStarts
          /\ pc' = pc
          /\ begun' = begun
          /\ playCmds' = playCmds]_vars

\* startVideo has been invoked in a phase other than idle
StartInvokedOutsideIdle ==
    /\ last = "startVideo:return"
    /\ phase \in {"video", "ready", "leaving"}
    /\ startCalls > musicStarts

\* ---- C7 ----
\* C7: goInvite invoked while the phase is not ready changes nothing: the
\* phase stays, the video is not paused, no navigation timer is scheduled.
ExitNoopOutsideReady ==
    [][(exitCalls' # exitCalls /\ phase # "ready") =>
          /\ phase' = phase
          /\ pauseCmds' = pauseCmds
          /\ navScheduled' = navScheduled]_vars

\* ---- C8 ----
\* C8: no state has an accepted startVideo still waiting for music.start
\* while the phase is still idle.
StartIsSynchronous ==
    (mounted /\ \E c \in Calls : pc[c] = "music") => phase # "idle"

\* ---- C9 ----
\* C9: music.start is called at most once and the video is begun at most once.
MusicStartedOnce ==
    musicStarts <= 1 /\ begun <= 1

\* ---- C10 ----
\* C10: when music.start fails, startVideo goes on as when it succeeds: the
\* phase becomes video, the frame callback is scheduled and it issues play().
MusicFailureDoesNotBlock ==
    [][\A c \in Calls :
          /\ (pc[c] = "music" /\ pc'[c] # "music" /\ musicOutcome'[c] = "blocked" /\ mounted)
                => (phase' = "video" /\ pc'[c] = "raf")
          /\ (pc[c] = "raf" /\ pc'[c] # "raf" /\ musicOutcome[c] = "blocked" /\ mounted)
                => (begun' = begun + 1 /\ playCmds' = playCmds + 1 /\ phase' = phase)]_vars

\* a startVideo whose music.start failed has issued its play()
StartedDespiteMusicFailure ==
    /\ \E c \in Calls : musicOutcome[c] = "blocked" /\ pc[c] \in {"play", "timer", "done"}
    /\ phase = "video"
    /\ begun >= 1
    /\ mounted

\* ---- C11 ----
\* C11: an 'ended' event delivered while the phase is video makes the phase
\* ready, whatever taps and retry timers came before.
EndedMakesReady ==
    [][(endedEvents' # endedEvents /\ phase = "video") => phase' = "ready"]_vars

\* the first 'ended' came after a retry tap and after a retry timer had been set
EndedAfterRetries ==
    /\ last = "onVideoEnded"
    /\ phase = "ready"
    /\ pauseCmds = 1
    /\ endedEvents = 1
    /\ retryTaps >= 1
    /\ retryTimers >= 1

\* ---- C12 ----
\* C12: a start whose first play() is rejected sets one retry timer, which
\* issues one more play(); a rejected retry sets no further timer, and the
\* timer's callback leaves the phase alone.
RetryOnce ==
    /\ [](retryTimers <= begun /\ playCmds <= 2 * begun + retryTaps)
    /\ [][(\E c \in Calls : pc[c] = "timer" /\ pc'[c] # "timer") =>
            /\ phase' = phase
            /\ retryTimers' = retryTimers
            /\ playCmds' = IF mounted THEN playCmds + 1 ELSE playCmds]_vars

\* the first play() and its one retry were both rejected; nothing else is pending
BothPlaysRejected ==
    /\ mounted
    /\ phase = "video"
    /\ begun = 1 /\ retryTimers = 1 /\ playCmds = 2
    /\ retryTaps = 0 /\ pauseCmds = 0
    /\ vState = "paused"
    /\ \E c \in Calls : pc[c] = "done"
    /\ \A c \in Calls : pc[c] \in {"none", "done"}

\* ---- C13 ----
\* C13: the hit regions that take a tap are a function of the phase alone:
\* idle -> entry, video -> retry overlay, ready -> exit, leaving -> none.
RegionsFollowPhase ==
    mounted =>
        ActiveRegions = CASE phase = "idle" -> {"entry"}
                          [] phase = "video" -> {"retry"}
                          [] phase = "ready" -> {"exit"}
                          [] phase = "leaving" -> {}

\* ---- C14 ----
\* C14: a retry timer that fires when the phase is already ready or leaving
\* does nothing: no play(), no change of the video.
StaleRetryTimerNoop ==
    [][((\E c \in Calls : pc[c] = "timer" /\ pc'[c] # "timer")
          /\ phase \in {"ready", "leaving"}) =>
            (playCmds' = playCmds /\ vState' = vState)]_vars

\* ---- C15 ----
\* C15: the retry overlay issues its play() only while the phase is video,
\* and a tap on it never changes the phase.
RetryTapOnlyInVideo ==
    [][retryTaps' # retryTaps => (phase = "video" /\ phase' = phase)]_vars

\* the overlay has been tapped after the start's own play()
RetryTapped ==
    /\ last = "RetryTap"
    /\ phase = "video"
    /\ playCmds >= 2

\* ---- C16 ----
\* C16: one start tap, the 'ended' event and one exit tap end in navigate
\* being called, and called once, provided the navigation timer gets to fire.
FullSequenceNavigates ==
    /\ []((startCalls <= 1 /\ exitCalls <= 1) => navigateCalls <= 1)
    /\ (exitCalls >= 1) ~> (navigateCalls >= 1)

\* the whole sequence has run with one tap each
NavigatedOnce ==
    /\ mounted
    /\ startCalls = 1 /\ endedEvents = 1 /\ exitCalls = 1
    /\ phase = "leaving"
    /\ navTimers = 0
    /\ navigateCalls = 1

VideoHeldPaused ==
    (mounted /\ phase \in {"ready", "leaving"}) => vState = "paused"

\* ---- C19 ----
\* C19: as long as no 'ended' event was delivered the phase is idle or video
\* and the exit hit was never there to be tapped.
NoEndedNoExit ==
    endedEvents = 0 =>
        (phase \in {"idle", "video"} /\ ~exitingFinal /\ exitCalls = 0 /\ navScheduled = 0)

\* every play() was rejected, nothing is pending, the phase is video for good
StuckInVideo ==
    /\ mounted
    /\ phase = "video"
    /\ endedEvents = 0
    /\ vState = "paused"
    /\ retryTaps = MaxRetryTaps
    /\ \A c \in Calls : pc[c] \in {"none", "done"}
    /\ \E c \in Calls : pc[c] = "done"

\* ---- C20 ----
\* C20: deleteRSVP removes the row from the list before the remote delete
\* returns; when the delete fails the list is again the list held when the
\* delete started and an error toast is shown; when it succeeds the row is
\* not in the list; either way deletingId is null again.
DeleteStartedStep == Len(dels') = Len(dels) + 1

DeleteReturnedStep(i) == i \in 1..Len(dels) /\ dels[i].st \in {"ok", "error"} /\ dels'[i].st # dels[i].st

OptimisticRemove ==
    [][DeleteStartedStep =>
          (~Has(rows', dels'[Len(dels')].id) /\ deletingId' = dels'[Len(dels')].id)]_allVars

RollbackOnFailure ==
    [][\A i \in 1..MaxDeletes : (DeleteReturnedStep(i) /\ dels[i].st = "error") =>
          (rows' = dels[i].held /\ toast' = "err")]_allVars

GoneOnSuccess ==
    [][\A i \in 1..MaxDeletes : (DeleteReturnedStep(i) /\ dels[i].st = "ok") =>
          ~Has(rows', dels[i].id)]_allVars

DeletingIdCleared ==
    [][\A i \in 1..MaxDeletes : DeleteReturnedStep(i) => deletingId' = 0]_allVars

OptimisticDeleteWithRollback ==
    /\ OptimisticRemove
    /\ RollbackOnFailure
    /\ GoneOnSuccess
    /\ DeletingIdCleared

\* ---- C21 ----
\* C21: over any sequence of start, stop and setVolume calls at most one
\* Audio object is ever constructed and every call operates on that object;
\* stop while no Audio exists creates none and changes nothing.
OneAudio ==
    /\ [](audiosMade <= 1 /\ usedAudio \subseteq ({audioRef} \ {0}))
    /\ [][(mlast' = "stop" /\ audioRef = 0) =>
            UNCHANGED <<audioRef, audiosMade, usedAudio, aPaused, aVolume, aPlays, aEvents,
                        isReady, isPlaying>>]_musicVars

\* two start() calls, then setVolume, all on the one Audio
CallsShareAudio ==
    /\ Len(aPlays) >= 2
    /\ mlast = "setVolume"
    /\ audiosMade = 1
    /\ usedAudio = {audioRef}

\* ---- C22 ----
\* C22: start never rejects: when the audio play() is rejected, start
\* resolves and isPlaying is set to false; isPlaying becomes true only by the
\* element's 'play' event, and the 'pause' and 'ended' events make it false.
StartNeverRejects ==
    /\ [](\A i \in 1..Len(aPlays) : aPlays[i].start # "rejected")
    /\ [][\A i \in 1..Len(aPlays) :
            (aPlays[i].start = "running" /\ aPlays'[i].start # "running" /\ aPlays[i].play = "rejected")
                => (aPlays'[i].start = "resolved" /\ ~isPlaying')]_musicVars
    /\ [][(isPlaying' /\ ~isPlaying) => (mlast' = "event" /\ Head(aEvents) = "play")]_musicVars
    /\ [][(mlast' = "event" /\ aEvents # <<>> /\ Head(aEvents) \in {"pause", "ended"}) => ~isPlaying']_musicVars

\* a start() whose play() was rejected after 'play' had made isPlaying true
RejectedStartResolved ==
    /\ \E i \in 1..Len(aPlays) : aPlays[i].play = "rejected" /\ aPlays[i].start = "resolved"
    /\ mlast = "StartContinues"
    /\ ~isPlaying
    /\ ~aPaused

\* ---- C23 ----
\* C23: at most one remote delete request is in flight at any time; while
\* deletingId is non-null no askDelete or confirmDelete invocation, the one
\* of the confirm modal that is leaving the document included, issues a
\* second request or opens the confirm modal.
DeletesInFlight == {i \in 1..Len(dels) : dels[i].st \in {"sent", "ok", "error"}}

OneDeleteInFlight ==
    /\ [](Cardinality(DeletesInFlight) <= 1)
    /\ [][deletingId # 0 => (Len(dels') = Len(dels) /\ (confirming' # 0 => confirming' = confirming))]_allVars

\* ---- C24 ----
\* C24: once signOut has completed and while no session exists, rows is
\* empty and selected and confirming are null, whatever load() or deleteRSVP
\* request was in flight when signOut was invoked.
SignedOutStaysEmpty ==
    (signOutSt = "done" /\ ~session) => (rows = <<>> /\ selected = 0 /\ confirming = 0)

\* ---- C25 ----
\* C25: when the trimmed first name, last name or phone is empty, submitRSVP
\* sends no insert request, shows an error toast and leaves the form fields
\* and the sending flag unchanged.
NoInsertWhenIncomplete ==
    [][(ilast' = "submit" /\ (Trim(form.first_name) = <<>> \/ Trim(form.last_name) = <<>>
                               \/ Trim(form.phone) = <<>>))
          => (inserts' = inserts /\ itoast' = "err" /\ form' = form /\ sending' = sending)]_rsvpVars

\* a first name of spaces only was submitted and refused
BlankNameRefused ==
    /\ ilast = "submit"
    /\ form.first_name # <<>>
    /\ Trim(form.first_name) = <<>>
    /\ Trim(form.last_name) # <<>>
    /\ Trim(form.phone) # <<>>
    /\ itoast = "err"
    /\ inserts = <<>>

\* ---- C26 ----
\* C26: sending is true exactly while an insert request is in flight, no
\* second insert is issued while one is in flight, the form is reset to its
\* defaults only when the insert succeeds, and on an insert error the form
\* fields are kept.
SendingTracksInsert ==
    /\ [](sending <=> InsertsInFlight # {})
    /\ [](Cardinality(InsertsInFlight) <= 1)
    /\ [][(form' # form /\ ilast' # "edit")
            => (form' = EmptyForm /\ \E i \in 1..Len(inserts) : inserts[i] = "ok" /\ inserts'[i] = "done:ok")]_rsvpVars
    /\ [][\A i \in 1..Len(inserts) : (inserts[i] = "error" /\ inserts'[i] = "done:error") => form' = form]_rsvpVars

\* an insert failed and the entered fields are still there
FailedInsertKeepsForm ==
    /\ ilast = "returned"
    /\ \E i \in 1..Len(inserts) : inserts[i] = "done:error"
    /\ ~Incomplete(Payload(form))
    /\ ~sending
    /\ itoast = "err"

\* ---- C27 ----
\* C27: on an open lightbox every goLightbox step leaves 0 <= i < n and
\* src = carousel[i]; +1 from n-1 gives 0 and -1 from 0 gives n-1; n steps
\* in a row in one direction come back to the image they started from; on a
\* closed lightbox goLightbox leaves it closed.
LastStepsSame(k) ==
    /\ Len(lbTrail) >= k
    /\ \A j \in (Len(lbTrail) - k + 1)..Len(lbTrail) : lbTrail[j] = lbTrail[Len(lbTrail)]

LightboxWraps ==
    /\ [](lightbox.open =>
            /\ lightbox.i \in 0..(Len(carousel) - 1)
            /\ lightbox.src = carousel[lightbox.i + 1])
    /\ [](lightbox.open /\ LastStepsSame(Len(carousel))
            => lbPath[Len(lbPath)] = lbPath[Len(lbPath) - Len(carousel)])
    /\ [][(lightbox.open /\ Len(lbTrail') = Len(lbTrail) + 1) =>
            /\ (lightbox.i = Len(carousel) - 1 /\ lbTrail'[Len(lbTrail')] = 1) => lightbox'.i = 0
            /\ (lightbox.i = 0 /\ lbTrail'[Len(lbTrail')] = 0 - 1) => lightbox'.i = Len(carousel) - 1]_lightboxVars
    /\ [][(~lightbox.open /\ lblast' = "goLightbox") => lightbox' = NoLightbox]_lightboxVars

\* opened on the first image and stepped back n times in a row
WentRoundBackwards ==
    /\ lightbox.open
    /\ lbPath[1] = 0
    /\ LastStepsSame(Len(carousel))
    /\ lbTrail[Len(lbTrail)] = 0 - 1
    /\ Len(lbTrail) = Len(carousel)
    /\ lightbox.i = 0

\* ---- C28 ----
\* C28: with total = floor(max(0, target - now) / 1000) the displayed values
\* satisfy 0 <= h < 24, 0 <= m < 60, 0 <= s < 60, d >= 0 and
\* 86400*d + 3600*h + 60*m + s = total; once now >= target all four are 0.
CountdownExact ==
    LET total == (IF untilTarget > 0 THEN untilTarget ELSE 0) \div 1000
    IN /\ count.h \in 0..23
       /\ count.m \in 0..59
       /\ count.s \in 0..59
       /\ count.d >= 0
       /\ 86400 * count.d + 3600 * count.h + 60 * count.m + count.s = total
       /\ untilTarget <= 0 => count = [d |-> 0, h |-> 0, m |-> 0, s |-> 0]

\* tick has run again after the target was passed
TargetPassed ==
    /\ ticks >= 2
    /\ untilTarget < 0
    /\ count = [d |-> 0, h |-> 0, m |-> 0, s |-> 0]

====
